---- MODULE Spec2Model ----
(***************************************************************************)
(* State-machine model of src/Trainer.py (class TransformerTrainer):       *)
(* the training loop train() with its checkpointing and early-stopping     *)
(* policy, train_epoch(), validate(), load_model() and the pure function   *)
(* sMAPE().                                                                *)
(*                                                                         *)
(* Abstractions.  The model's parameter tensors are one natural number,    *)
(* the identifier of their value; an optimizer step yields the next        *)
(* identifier.  The optimizer state is Adam's step count and the learning  *)
(* rate of param_groups[0], kept as the number of halvings applied to the  *)
(* initial rate.  A loss is a natural number; +infinity is the value Inf,  *)
(* ordered by FloatLess.  Per-batch losses are multiples of the number of  *)
(* batches, so that the mean total_loss / num_batches is an exact          *)
(* division.  The file system is a function from paths to a sequence       *)
(* holding the stored checkpoint record, empty when the file does not      *)
(* exist.  The variables written, wbase, saved, base and ran are history   *)
(* variables: no action reads them.  The plotting routines are modelled by *)
(* the model.eval() call, the image files and the lines they write; what   *)
(* the charts show is not modelled.                                        *)
(***************************************************************************)
EXTENDS Integers, Sequences, FiniteSets, TLC

\* ------------------------------------------------------------------ bounds
MaxEpochs == 3      \* largest num_epochs / start_epoch argument of train(), and
                    \* cap on the number of epochs run on one trainer
MaxPatience == 2    \* largest early_stopping_patience argument
MaxLoss == 1        \* a validation batch has loss k * num_batches, k in 0..MaxLoss
MaxAbs == 5         \* sMAPE is evaluated on -MaxAbs..MaxAbs

\* ------------------------------------------------------- program constants
Inf == -1             \* float('inf'); compared only through FloatLess
SchedPatience == 5    \* ReduceLROnPlateau(patience=5)

\* The batches the two DataLoaders yield in one pass (lines 56-63).  Both are
\* non-empty: with no batch, line 168 or 192 divides by zero.
train_loader == <<"t1", "t2">>
val_loader == <<"v1", "v2">>
NumTrainBatches == Len(train_loader)
NumValBatches == Len(val_loader)
SavePaths == {"best_model.pth"}                 \* save_path arguments of train()
Paths == SavePaths \cup {"missing.pth"}         \* path arguments of load_model()
Returned == {"EARLY_STOPPED", "COMPLETED", "load_model_done", "plot_done"}

VARIABLES
    model,              \* self.model parameters (state_dict)
    training,           \* self.model.training: TRUE after train(), FALSE after eval()
    optimizer,          \* self.optimizer state_dict: [step, lr_halvings]
    scheduler,          \* self.scheduler: [best, num_bad_epochs]
    train_losses,       \* self.train_losses
    val_losses,         \* self.val_losses
    best_val_loss,      \* self.best_val_loss
    files,              \* file system: path -> <<>> or <<checkpoint record>>
    pc,                 \* control position
    num_epochs, save_path, early_stopping_patience, start_epoch,  \* train() arguments
    epoch,              \* loop variable of train()
    patience_counter,   \* local of train()
    total_loss, num_batches,   \* locals of train_epoch() / validate()
    train_loss,         \* local of train(): result of train_epoch()
    val_loss,           \* local of train(): result of validate()
    path,               \* load_model() argument
    ret,                \* value returned by the last train() / load_model() call
    written,            \* log of the val_loss of every torch.save, in order
    wbase,              \* Len(written) when the current train() call began
    saved,              \* path -> <<>> or <<[model, optimizer, epoch] at the save>>
    base,               \* Len(val_losses) when the current train() call began
    ran,                \* epochs begun by the current train() call
    y_true, y_pred, smape,     \* sMAPE(): arguments and result
    images,             \* image files written by plt.savefig
    stdout,             \* lines printed by the current plotting call
    plotted,            \* plotting routines the current call has run, in order
    caller              \* "plot_summary" inside plot_summary(), "direct" inside
                        \* a plotting routine called on its own, else "none"

trainerVars == <<model, training, optimizer, scheduler, train_losses, val_losses,
                 best_val_loss, files, pc, num_epochs, save_path,
                 early_stopping_patience, start_epoch, epoch, patience_counter,
                 total_loss, num_batches, train_loss, val_loss, path, ret,
                 written, wbase, saved, base, ran>>
smapeVars == <<y_true, y_pred, smape>>
plotVars == <<images, stdout, plotted, caller>>
vars == <<trainerVars, smapeVars, plotVars>>

\* ------------------------------------------------------------ pure helpers
\* Python float comparison a < b with float('inf') as Inf.
FloatLess(a, b) == a /= Inf /\ (b = Inf \/ a < b)

Abs(x) == IF x < 0 THEN -x ELSE x

\* total_loss / num_batches (lines 168, 192); totals are multiples of n.
Mean(total, n) == total \div n

\* criterion(predictions, targets).item() of a training batch (line 150): a
\* function of the parameters the batch is scored with.  The training loss
\* takes no part in the control flow of train().
TrainBatchLoss(m) == NumTrainBatches * m

\* criterion(predictions, targets).item() of a validation batch (line 188):
\* an input.
ValBatchLosses == {k * NumValBatches : k \in 0..MaxLoss}

\* self.optimizer.step() (line 159): new parameters, one more Adam step
OptimizerStep(m, o) == [model |-> m + 1, optimizer |-> [o EXCEPT !.step = @ + 1]]

NoneRet == [kind |-> "None", checkpoint |-> <<>>, train_losses |-> <<>>, val_losses |-> <<>>]
HistoriesRet(tl, vl) == [kind |-> "histories", checkpoint |-> <<>>,
                         train_losses |-> tl, val_losses |-> vl]
CheckpointRet(c) == [kind |-> "checkpoint", checkpoint |-> <<c>>,
                     train_losses |-> <<>>, val_losses |-> <<>>]

\* os.path.exists(path)
Exists(p) == files[p] /= <<>>

\* construction, lines 66-77
Init ==
    /\ model = 0
    /\ training = TRUE
    /\ optimizer = [step |-> 0, lr_halvings |-> 0]
    /\ scheduler = [best |-> Inf, num_bad_epochs |-> 0]
    /\ train_losses = <<>>
    /\ val_losses = <<>>
    /\ best_val_loss = Inf
    /\ files = [p \in Paths |-> <<>>]
    /\ pc = "idle"
    /\ num_epochs = 0 /\ save_path = "best_model.pth"
    /\ early_stopping_patience = 0 /\ start_epoch = 0
    /\ epoch = 0 /\ patience_counter = 0
    /\ total_loss = 0 /\ num_batches = 0 /\ train_loss = 0 /\ val_loss = 0
    /\ path = "best_model.pth"
    /\ ret = NoneRet
    /\ written = <<>> /\ wbase = 0
    /\ saved = [p \in Paths |-> <<>>]
    /\ base = 0 /\ ran = 0
    /\ y_true = 0 /\ y_pred = 0 /\ smape = [num |-> 0, den |-> 1]
    /\ images = {} /\ stdout = <<>> /\ plotted = <<>> /\ caller = "none"

\* ------------------------------------------------------------------ train()
\* def train(self, num_epochs, save_path, early_stopping_patience, start_epoch):
\* the call binds the arguments and runs line 206.  The guard caps the total
\* number of epochs run on one trainer.
Train(n, sp, pat, se) ==
    /\ pc = "idle"
    /\ Len(val_losses) + (IF n > se THEN n - se ELSE 0) <= MaxEpochs
    /\ num_epochs' = n /\ save_path' = sp
    /\ early_stopping_patience' = pat /\ start_epoch' = se
    /\ patience_counter' = 0
    /\ epoch' = se
    /\ base' = Len(val_losses) /\ ran' = 0 /\ wbase' = Len(written)
    /\ ret' = NoneRet
    /\ pc' = "for"
    /\ UNCHANGED <<model, training, optimizer, scheduler, train_losses,
                   val_losses, best_val_loss, files, total_loss, num_batches,
                   train_loss, path, written, saved, smapeVars, plotVars, val_loss>>

\* faulty variant: an inclusive upper end, range(start_epoch, num_epochs + 1)
InRangeInclusive(e, n) == e <= n

\* range(start_epoch, num_epochs) (line 208) has the index e
InRange(e, n) == e < n

\* for epoch in range(start_epoch, num_epochs): one more index; train_epoch()
\* is entered (lines 135-137).
ForBody ==
    /\ pc = "for"
    /\ InRange(epoch, num_epochs)
    /\ training' = TRUE
    /\ total_loss' = 0 /\ num_batches' = 0
    /\ ran' = ran + 1
    /\ pc' = "train_epoch"
    /\ UNCHANGED <<model, optimizer, scheduler, train_losses, val_losses,
                   best_val_loss, files, num_epochs, save_path,
                   early_stopping_patience, start_epoch, epoch,
                   patience_counter, train_loss, path, ret, written, saved,
                   base, smapeVars, plotVars, val_loss, wbase>>

\* the range is exhausted: lines 269-273, the loop ends without a break.
ForExhausted ==
    /\ pc = "for"
    /\ ~InRange(epoch, num_epochs)
    /\ ret' = HistoriesRet(train_losses, val_losses)
    /\ pc' = "COMPLETED"
    /\ UNCHANGED <<model, training, optimizer, scheduler, train_losses,
                   val_losses, best_val_loss, files, num_epochs, save_path,
                   early_stopping_patience, start_epoch, epoch,
                   patience_counter, total_loss, num_batches, train_loss, path,
                   written, saved, base, ran, smapeVars, plotVars, val_loss, wbase>>

\* one iteration of the batch loop of train_epoch(), lines 142-162: the loss
\* of the batch and the parameters after optimizer.step() are inputs.
TrainBatch ==
    /\ pc = "train_epoch"
    /\ num_batches < NumTrainBatches
    /\ total_loss' = total_loss + TrainBatchLoss(model)
    /\ model' = OptimizerStep(model, optimizer).model
    /\ optimizer' = OptimizerStep(model, optimizer).optimizer
    /\ num_batches' = num_batches + 1
    /\ UNCHANGED <<training, scheduler, train_losses, val_losses,
                   best_val_loss, files, pc, num_epochs, save_path,
                   early_stopping_patience, start_epoch, epoch,
                   patience_counter, train_loss, path, ret, written, saved,
                   base, ran, smapeVars, plotVars, val_loss, wbase>>

\* train_epoch() returns (line 168) into line 214; validate() is entered
\* (lines 172-174).
TrainEpochReturn ==
    /\ pc = "train_epoch"
    /\ num_batches = NumTrainBatches
    /\ train_loss' = Mean(total_loss, num_batches)
    /\ training' = FALSE
    /\ total_loss' = 0 /\ num_batches' = 0
    /\ pc' = "validate"
    /\ UNCHANGED <<model, optimizer, scheduler, train_losses, val_losses,
                   best_val_loss, files, num_epochs, save_path,
                   early_stopping_patience, start_epoch, epoch,
                   patience_counter, path, ret, written, saved, base, ran,
                   smapeVars, plotVars, val_loss, wbase>>

\* faulty variant: the validation loop takes an optimizer step per batch
ValidateBatchStepping ==
    /\ pc = "validate"
    /\ num_batches < NumValBatches
    /\ \E loss \in ValBatchLosses : total_loss' = total_loss + loss
    /\ num_batches' = num_batches + 1
    /\ model' = OptimizerStep(model, optimizer).model
    /\ optimizer' = OptimizerStep(model, optimizer).optimizer
    /\ UNCHANGED <<training, scheduler, train_losses, val_losses,
                   best_val_loss, files, pc, num_epochs, save_path,
                   early_stopping_patience, start_epoch, epoch, patience_counter,
                   train_loss, val_loss, path, ret, written, wbase, saved, base,
                   ran, smapeVars, plotVars>>

\* one iteration of the batch loop of validate(), lines 180-190.
ValidateBatch ==
    /\ pc = "validate"
    /\ num_batches < NumValBatches
    /\ \E loss \in ValBatchLosses : total_loss' = total_loss + loss
    /\ num_batches' = num_batches + 1
    /\ UNCHANGED <<model, training, optimizer, scheduler, train_losses,
                   val_losses, best_val_loss, files, pc, num_epochs, save_path,
                   early_stopping_patience, start_epoch, epoch,
                   patience_counter, train_loss, path, ret, written, saved,
                   base, ran, smapeVars, plotVars, val_loss, wbase>>

\* validate() returns (line 192) into line 217.
ValidateReturn ==
    /\ pc = "validate"
    /\ num_batches = NumValBatches
    /\ val_loss' = Mean(total_loss, num_batches)
    /\ total_loss' = 0 /\ num_batches' = 0
    /\ pc' = "record"
    /\ UNCHANGED <<model, training, optimizer, scheduler, train_losses, val_losses,
                   best_val_loss, files, num_epochs, save_path,
                   early_stopping_patience, start_epoch, epoch, patience_counter,
                   train_loss, path, ret, written, wbase, saved, base, ran,
                   smapeVars, plotVars>>

\* faulty variant: the history is replaced by its newest entry
RecordLossOverwrite(history, loss) == <<loss>>

\* self.train_losses.append(train_loss) / self.val_losses.append(val_loss)
\* (lines 220-221)
RecordLoss(history, loss) == Append(history, loss)

\* faulty variant: the comparison of line 244 is reversed
ImprovesReversed(v, best) == FloatLess(best, v)

\* faulty variant: val_loss <= self.best_val_loss
ImprovesOrTies(v, best) == v = best \/ FloatLess(v, best)

\* if val_loss < self.best_val_loss (line 244)
Improves(v, best) == FloatLess(v, best)

\* faulty variant: the counter is not reset on improvement
NextCounterNoReset(improved, counter) == counter + 1

\* faulty variant: patience_counter = 1 instead of patience_counter += 1
NextCounterStuck(improved, counter) == IF improved THEN 0 ELSE 1

\* patience_counter = 0 (line 257) or patience_counter += 1 (line 259)
NextCounter(improved, counter) == IF improved THEN 0 ELSE counter + 1

\* faulty variant: patience_counter > early_stopping_patience
EarlyStopLate(counter, patience) == counter > patience

\* if patience_counter >= early_stopping_patience (line 262)
EarlyStop(counter, patience) == counter >= patience

\* the dictionary handed to torch.save (lines 246-252)
Checkpoint(e, m, o, tl, vl) ==
    [epoch |-> e, model_state_dict |-> m, optimizer_state_dict |-> o,
     train_loss |-> tl, val_loss |-> vl]

\* self.scheduler.step(val_loss) (line 224) of ReduceLROnPlateau(mode='min',
\* factor=0.5, patience=5): the scheduler's own record of the best metric and
\* of the bad epochs since.
SchedulerStep(s, v) ==
    LET bad == IF FloatLess(v, s.best) THEN 0 ELSE s.num_bad_epochs + 1
    IN  [best |-> IF FloatLess(v, s.best) THEN v ELSE s.best,
         num_bad_epochs |-> IF bad > SchedPatience THEN 0 ELSE bad]

\* the scheduler halves the learning rate of the optimizer when the bad epochs
\* exceed its patience
ReducesLR(s, v) ==
    ~FloatLess(v, s.best) /\ s.num_bad_epochs + 1 > SchedPatience

\* the rest of the loop body, lines 220-267: the losses are recorded, the
\* scheduler steps, the checkpoint is written on improvement, and the loop
\* either breaks (lines 262-273) or goes to the next index.
EpochEnd ==
    /\ pc = "record"
    /\ LET opt == IF ReducesLR(scheduler, val_loss)
                  THEN [optimizer EXCEPT !.lr_halvings = @ + 1]
                  ELSE optimizer
           improved == Improves(val_loss, best_val_loss)
           counter == NextCounter(improved, patience_counter)
       IN  /\ train_losses' = RecordLoss(train_losses, train_loss)
           /\ val_losses' = RecordLoss(val_losses, val_loss)
           /\ scheduler' = SchedulerStep(scheduler, val_loss)
           /\ optimizer' = opt
           /\ IF improved
              THEN /\ best_val_loss' = val_loss
                   /\ files' = [files EXCEPT ![save_path] =
                          <<Checkpoint(epoch, model, opt, train_loss, val_loss)>>]
                   /\ written' = Append(written, val_loss)
                   /\ saved' = [saved EXCEPT ![save_path] =
                          <<[model |-> model, optimizer |-> opt, epoch |-> epoch]>>]
              ELSE UNCHANGED <<best_val_loss, files, written, saved>>
           /\ patience_counter' = counter
           /\ IF EarlyStop(counter, early_stopping_patience)
              THEN /\ pc' = "EARLY_STOPPED"
                   /\ epoch' = epoch
                   /\ ret' = HistoriesRet(train_losses', val_losses')
              ELSE /\ pc' = "for"
                   /\ epoch' = epoch + 1
                   /\ ret' = ret
    /\ train_loss' = 0 /\ val_loss' = 0
    /\ UNCHANGED <<model, training, total_loss, num_batches, num_epochs, save_path,
                   early_stopping_patience, start_epoch, path, wbase, base, ran,
                   smapeVars, plotVars>>

\* ------------------------------------------------------------- load_model()
\* faulty variant: no os.path.exists test, torch.load raises on a missing file
load_model_unchecked(p) ==
    IF Exists(p)
    THEN [model |-> files[p][1].model_state_dict,
          optimizer |-> files[p][1].optimizer_state_dict,
          ret |-> CheckpointRet(files[p][1])]
    ELSE [model |-> model, optimizer |-> optimizer,
          ret |-> [NoneRet EXCEPT !.kind = "FileNotFoundError"]]

\* faulty variant: the optimizer state is not restored
load_model_params_only(p) ==
    IF Exists(p)
    THEN [model |-> files[p][1].model_state_dict,
          optimizer |-> optimizer,
          ret |-> CheckpointRet(files[p][1])]
    ELSE [model |-> model, optimizer |-> optimizer, ret |-> NoneRet]

\* lines 564-572: the state after the call, as [model, optimizer, ret]
load_model(p) ==
    IF Exists(p)
    THEN LET checkpoint == files[p][1]
         IN  [model |-> checkpoint.model_state_dict,
              optimizer |-> checkpoint.optimizer_state_dict,
              ret |-> CheckpointRet(checkpoint)]
    ELSE [model |-> model, optimizer |-> optimizer, ret |-> NoneRet]

LoadModel(p) ==
    /\ pc = "idle"
    /\ path' = p
    /\ model' = load_model(p).model
    /\ optimizer' = load_model(p).optimizer
    /\ ret' = load_model(p).ret
    /\ pc' = "load_model_done"
    /\ UNCHANGED <<training, scheduler, train_losses, val_losses,
                   best_val_loss, files, num_epochs, save_path,
                   early_stopping_patience, start_epoch, epoch,
                   patience_counter, total_loss, num_batches, train_loss,
                   written, saved, base, ran, smapeVars, plotVars, val_loss, wbase>>

\* the caller takes the returned value: the frame of the call is gone
Return ==
    /\ pc \in Returned
    /\ pc' = "idle"
    /\ ret' = NoneRet
    /\ num_epochs' = 0 /\ save_path' = "best_model.pth"
    /\ early_stopping_patience' = 0 /\ start_epoch' = 0
    /\ epoch' = 0 /\ patience_counter' = 0
    /\ path' = "best_model.pth"
    /\ base' = 0 /\ ran' = 0 /\ wbase' = 0
    /\ caller' = "none" /\ plotted' = <<>> /\ stdout' = <<>>
    /\ UNCHANGED <<model, training, optimizer, scheduler, train_losses,
                   val_losses, best_val_loss, files, total_loss, num_batches,
                   train_loss, written, saved, smapeVars, val_loss, images>>

\* ---------------------------------------------------------------- plotting
\* the calls of plot_summary(), in their order (lines 283-288)
PlotOrder == <<"plot_training_history", "plot_predictions",
               "plot_perfect_prediction", "plot_attention_weights",
               "plot_error_percentage_summary", "plot_sMAPE_summary">>

\* print("沒有訓練歷史可繪製") (line 351)
NoHistoryWarning == "no training history to plot"

\* Where control goes when routine r returns: to the next call of
\* plot_summary(), or back to the caller of the whole call.
AfterRoutine(r, c) ==
    IF c = "plot_summary" /\ \E i \in 1..Len(PlotOrder) - 1 : PlotOrder[i] = r
    THEN PlotOrder[(CHOOSE i \in 1..Len(PlotOrder) - 1 : PlotOrder[i] = r) + 1]
    ELSE "plot_done"

\* faulty variant: the history is plotted without looking at it
HasHistoryUnchecked(tl) == TRUE

\* the negation of `not self.train_losses` (line 350)
HasHistory(tl) == tl /= <<>>

\* def plot_summary(self): the call, up to its first statement
PlotSummary ==
    /\ pc = "idle"
    /\ caller' = "plot_summary"
    /\ plotted' = <<>> /\ stdout' = <<>>
    /\ pc' = PlotOrder[1]
    /\ UNCHANGED <<model, training, optimizer, scheduler, train_losses,
                   val_losses, best_val_loss, files, num_epochs, save_path,
                   early_stopping_patience, start_epoch, epoch,
                   patience_counter, total_loss, num_batches, train_loss,
                   val_loss, path, ret, written, wbase, saved, base, ran,
                   smapeVars, images>>

\* trainer.plot_training_history() called on its own
PlotTrainingHistoryCall ==
    /\ pc = "idle"
    /\ caller' = "direct"
    /\ plotted' = <<>> /\ stdout' = <<>>
    /\ pc' = "plot_training_history"
    /\ UNCHANGED <<model, training, optimizer, scheduler, train_losses,
                   val_losses, best_val_loss, files, num_epochs, save_path,
                   early_stopping_patience, start_epoch, epoch,
                   patience_counter, total_loss, num_batches, train_loss,
                   val_loss, path, ret, written, wbase, saved, base, ran,
                   smapeVars, images>>

\* def plot_training_history(self), lines 348-375
PlotTrainingHistory ==
    /\ pc = "plot_training_history"
    /\ IF ~HasHistory(train_losses)
       THEN /\ stdout' = Append(stdout, NoHistoryWarning)
            /\ images' = images
       ELSE /\ images' = images \cup {"training_history.png"}
            /\ stdout' = stdout
    /\ plotted' = Append(plotted, "plot_training_history")
    /\ pc' = AfterRoutine("plot_training_history", caller)
    /\ UNCHANGED <<model, training, optimizer, scheduler, train_losses,
                   val_losses, best_val_loss, files, num_epochs, save_path,
                   early_stopping_patience, start_epoch, epoch,
                   patience_counter, total_loss, num_batches, train_loss,
                   val_loss, path, ret, written, wbase, saved, base, ran,
                   smapeVars, caller>>

\* The common shape of the five routines that score the validation set:
\* self.model.eval(), the plt.savefig calls, the statistics header printed.
PlotRoutine(r, outputs, printed) ==
    /\ pc = r
    /\ training' = FALSE
    /\ images' = images \cup outputs
    /\ stdout' = stdout \o printed
    /\ plotted' = Append(plotted, r)
    /\ pc' = AfterRoutine(r, caller)
    /\ UNCHANGED <<model, optimizer, scheduler, train_losses,
                   val_losses, best_val_loss, files, num_epochs, save_path,
                   early_stopping_patience, start_epoch, epoch,
                   patience_counter, total_loss, num_batches, train_loss,
                   val_loss, path, ret, written, wbase, saved, base, ran,
                   smapeVars, caller>>

\* def plot_predictions(self), lines 290-316
PlotPredictions ==
    PlotRoutine("plot_predictions", {"val_predictions.png"}, <<>>)

\* def plot_perfect_prediction(self), lines 318-346
PlotPerfectPrediction ==
    PlotRoutine("plot_perfect_prediction", {"perfect_prediction.png"}, <<>>)

\* def plot_attention_weights(self), lines 377-444: the first batch of the
\* validation loader (val_loader is not empty)
PlotAttentionWeights ==
    PlotRoutine("plot_attention_weights",
                {"attention_weights.png", "average_attention_weights.png"},
                <<"attention statistics">>)

\* def plot_error_percentage_summary(self), lines 446-500
PlotErrorPercentageSummary ==
    PlotRoutine("plot_error_percentage_summary",
                {"error_percentage_line.png", "error_percentage_histogram.png"},
                <<"Error Percentage Statistics:">>)

\* def plot_sMAPE_summary(self), lines 502-560: the two files go under
\* self.save_dir
PlotSMAPESummary ==
    PlotRoutine("plot_sMAPE_summary",
                {"save_dir/sMAPE_line.png", "save_dir/sMAPE_histogram.png"},
                <<"sMAPE Statistics:">>)

\* ------------------------------------------------------------------ sMAPE()
\* faulty variant: the denominator is np.abs(y_pred + y_true)
sMAPE_abs_of_sum(t, p) ==
    IF t = 0 /\ p = 0
    THEN [num |-> 0, den |-> 1]
    ELSE [num |-> 2 * Abs(p - t) * 100, den |-> Abs(p + t)]

\* lines 277-279, as the exact fraction num / den
sMAPE(t, p) ==
    IF t = 0 /\ p = 0
    THEN [num |-> 0, den |-> 1]
    ELSE [num |-> 2 * Abs(p - t) * 100, den |-> Abs(p) + Abs(t)]

SMAPECall ==
    /\ pc = "smape_args"
    /\ smape' = sMAPE(y_true, y_pred)
    /\ pc' = "smape_done"
    /\ UNCHANGED <<model, training, optimizer, scheduler, train_losses,
                   val_losses, best_val_loss, files, num_epochs, save_path,
                   early_stopping_patience, start_epoch, epoch,
                   patience_counter, total_loss, num_batches, train_loss, path,
                   ret, written, saved, base, ran, y_true, y_pred, val_loss,
                   wbase, plotVars>>

InitSMAPE ==
    /\ model = 0
    /\ training = TRUE
    /\ optimizer = [step |-> 0, lr_halvings |-> 0]
    /\ scheduler = [best |-> Inf, num_bad_epochs |-> 0]
    /\ train_losses = <<>>
    /\ val_losses = <<>>
    /\ best_val_loss = Inf
    /\ files = [p \in Paths |-> <<>>]
    /\ pc = "smape_args"
    /\ num_epochs = 0 /\ save_path = "best_model.pth"
    /\ early_stopping_patience = 0 /\ start_epoch = 0
    /\ epoch = 0 /\ patience_counter = 0
    /\ total_loss = 0 /\ num_batches = 0 /\ train_loss = 0 /\ val_loss = 0
    /\ path = "best_model.pth"
    /\ ret = NoneRet
    /\ written = <<>> /\ wbase = 0
    /\ saved = [p \in Paths |-> <<>>]
    /\ base = 0 /\ ran = 0
    /\ y_true \in -MaxAbs..MaxAbs /\ y_pred \in -MaxAbs..MaxAbs
    /\ smape = [num |-> 0, den |-> 1]
    /\ images = {} /\ stdout = <<>> /\ plotted = <<>> /\ caller = "none"

NextSMAPE == SMAPECall

SpecSMAPE == InitSMAPE /\ [][NextSMAPE]_vars

Next ==
    \/ \E n \in 0..MaxEpochs, sp \in SavePaths, pat \in 0..MaxPatience,
          se \in 0..MaxEpochs : Train(n, sp, pat, se)
    \/ ForBody
    \/ ForExhausted
    \/ TrainBatch
    \/ TrainEpochReturn
    \/ ValidateBatch
    \/ ValidateReturn
    \/ EpochEnd
    \/ \E p \in Paths : LoadModel(p)
    \/ Return

Spec == Init /\ [][Next]_vars

\* The trainer with its plotting routines: train() is called with the
\* default save_path and start_epoch.
NextPlot ==
    \/ \E n \in 0..MaxEpochs, pat \in 0..MaxPatience :
          Train(n, "best_model.pth", pat, 0)
    \/ ForBody
    \/ ForExhausted
    \/ TrainBatch
    \/ TrainEpochReturn
    \/ ValidateBatch
    \/ ValidateReturn
    \/ EpochEnd
    \/ PlotSummary
    \/ PlotTrainingHistoryCall
    \/ PlotTrainingHistory
    \/ PlotPredictions
    \/ PlotPerfectPrediction
    \/ PlotAttentionWeights
    \/ PlotErrorPercentageSummary
    \/ PlotSMAPESummary
    \/ Return

SpecPlot == Init /\ [][NextPlot]_vars

\* ----------------------------------------------------- helpers of the claims
Range(seq) == {seq[i] : i \in 1..Len(seq)}

\* the best validation loss among the entries of vl, +infinity when empty
BestSeen(vl) ==
    IF vl = <<>> THEN Inf
    ELSE CHOOSE v \in Range(vl) : \A w \in Range(vl) : v <= w

\* epoch entry i of val_losses did not strictly improve on the entries before
Stagnant(i) == ~FloatLess(val_losses[i], BestSeen(SubSeq(val_losses, 1, i - 1)))

StrictlyDecreasing(seq) == \A i \in 1..Len(seq) - 1 : seq[i + 1] < seq[i]

InCall == pc \in {"for", "train_epoch", "validate", "record",
                  "EARLY_STOPPED", "COMPLETED"}
Terminal == pc \in {"EARLY_STOPPED", "COMPLETED"}

\* number of trailing entries the current call appended that are stagnant
TrailingBad ==
    LET n == Len(val_losses)
    IN  CHOOSE k \in 0..(n - base) :
          /\ \A i \in (n - k + 1)..n : Stagnant(i)
          /\ k = n - base \/ ~Stagnant(n - k)

\* every epoch of the current call improved
AllImproved == \A i \in (base + 1)..Len(val_losses) : ~Stagnant(i)

AllEqual(seq) == \A i, j \in 1..Len(seq) : seq[i] = seq[j]

EpochsAsked == IF num_epochs > start_epoch THEN num_epochs - start_epoch ELSE 0

Min(a, b) == IF a < b THEN a ELSE b

\* -------------------------------------------------------------------- claims

\* C1: an epoch writes a checkpoint to save_path if and only if its validation
\* loss is strictly less than the best validation loss seen so far (+infinity
\* at first); the validation losses of the written checkpoints, in the order
\* they were written, are strictly decreasing.
C1_CheckpointIffImproves ==
    /\ [](StrictlyDecreasing(written))
    /\ [][Len(val_losses') = Len(val_losses) + 1 =>
            LET v == val_losses'[Len(val_losses')]
                better == FloatLess(v, BestSeen(val_losses))
            IN  /\ (written' /= written) <=> better
                /\ (files' /= files) <=> better
                /\ better => /\ written' = Append(written, v)
                             /\ files'[save_path] /= <<>>
                             /\ files'[save_path][1].val_loss = v]_vars

\* two checkpoints were written and one epoch wrote none
C1_Witness ==
    /\ Len(written) >= 2
    /\ Len(val_losses) > Len(written)
    /\ files["best_model.pth"] /= <<>>

\* C2: when the epochs of a train() call end with exactly
\* early_stopping_patience consecutive epochs without improvement, the loop
\* is in EARLY_STOPPED at that epoch; from EARLY_STOPPED no further epoch
\* runs, and the returned histories have one entry per epoch actually run.
C2_EarlyStopping ==
    /\ []((InCall /\ Len(val_losses) > base
                 /\ TrailingBad = early_stopping_patience)
            => pc = "EARLY_STOPPED")
    /\ [](pc = "EARLY_STOPPED" =>
            /\ ret = HistoriesRet(train_losses, val_losses)
            /\ Len(ret.train_losses) = base + ran
            /\ Len(ret.val_losses) = base + ran
            /\ ran = epoch - start_epoch + 1)
    /\ [][pc = "EARLY_STOPPED" =>
            /\ pc' = "idle"
            /\ UNCHANGED <<train_losses, val_losses, model, optimizer, scheduler,
                           best_val_loss, files, written>>]_vars

\* an improvement, then patience >= 1 epochs without one, and the loop stopped
\* before num_epochs epochs
C2_Witness ==
    /\ pc = "EARLY_STOPPED"
    /\ early_stopping_patience >= 1
    /\ TrailingBad = early_stopping_patience
    /\ Len(val_losses) > base + TrailingBad
    /\ start_epoch = 0 /\ base = 0
    /\ Len(ret.val_losses) < num_epochs

\* C3 as stated: whenever every epoch of a train() call strictly improved,
\* the call ends in COMPLETED after all its epochs, with one checkpoint per
\* epoch, for every early_stopping_patience.
C3_Original ==
    (Terminal /\ AllImproved) =>
        /\ pc = "COMPLETED"
        /\ ran = EpochsAsked
        /\ Len(written) - wbase = ran

\* C3 amended: the same for early_stopping_patience >= 1.
C3_ImprovingRunCompletes ==
    (Terminal /\ AllImproved /\ early_stopping_patience >= 1) =>
        /\ pc = "COMPLETED"
        /\ ran = EpochsAsked
        /\ Len(written) - wbase = ran

\* the scenario: 3 epochs, patience 2, start_epoch 0, three improvements
C3_Witness ==
    /\ pc = "COMPLETED"
    /\ num_epochs = 3 /\ early_stopping_patience = 2 /\ start_epoch = 0
    /\ base = 0 /\ AllImproved
    /\ Len(val_losses) = 3 /\ Len(written) = 3

\* C4: on a fresh trainer, with start_epoch 0 and at least one epoch, a
\* validation loss that is the same in every epoch writes exactly one
\* checkpoint, in the first epoch, and the call runs
\* min(num_epochs, 1 + early_stopping_patience) epochs, stopping early when
\* the patience is reached within num_epochs.
C4_ConstantLoss ==
    (Terminal /\ base = 0 /\ start_epoch = 0 /\ num_epochs >= 1
              /\ AllEqual(val_losses)) =>
        /\ Len(written) = 1
        /\ written[1] = val_losses[1]
        /\ files[save_path] /= <<>> /\ files[save_path][1].epoch = 0
        /\ ran = Min(num_epochs, 1 + early_stopping_patience)
        /\ Len(val_losses) = ran
        /\ pc = "EARLY_STOPPED" <=> 1 + early_stopping_patience <= num_epochs

\* the scenario: 3 epochs, patience 2, the same loss three times
C4_Witness ==
    /\ pc = "EARLY_STOPPED"
    /\ num_epochs = 3 /\ early_stopping_patience = 2 /\ start_epoch = 0
    /\ base = 0 /\ AllEqual(val_losses)
    /\ Len(val_losses) = 3 /\ Len(written) = 1

\* C5: a train() call with num_epochs <= start_epoch runs no epoch: it goes
\* from the loop head to COMPLETED, changes neither the histories, the best
\* loss, the model, the optimizer, the scheduler nor the files, and returns
\* the histories as they were.
C5_ZeroEpochs ==
    /\ []((pc = "COMPLETED" /\ num_epochs <= start_epoch) =>
            /\ ran = 0
            /\ Len(val_losses) = base /\ Len(train_losses) = base
            /\ Len(written) = wbase
            /\ ret = HistoriesRet(train_losses, val_losses))
    /\ [][(pc = "for" /\ num_epochs <= start_epoch) =>
            /\ pc' = "COMPLETED"
            /\ ret' = HistoriesRet(train_losses, val_losses)
            /\ UNCHANGED <<train_losses, val_losses, best_val_loss, model,
                           training, optimizer, scheduler, files, written,
                           ran>>]_vars

\* a zero-epoch call on a trainer that already has histories
C5_Witness ==
    /\ pc = "COMPLETED"
    /\ num_epochs <= start_epoch
    /\ Len(val_losses) >= 2
    /\ ret.val_losses = val_losses

\* C6: load_model(path) on a path with no file returns None, raises nothing
\* and changes neither the model parameters, the optimizer state, the loss
\* histories, the best loss, the scheduler nor the files.
C6_LoadMissing ==
    /\ []((pc = "load_model_done" /\ ~Exists(path)) => ret = NoneRet)
    /\ [][(pc = "idle" /\ pc' = "load_model_done" /\ ~Exists(path')) =>
            /\ ret' = NoneRet
            /\ UNCHANGED <<model, training, optimizer, scheduler, train_losses,
                           val_losses, best_val_loss, files>>]_vars

\* a missing path is loaded on a trainer that has trained and saved
C6_Witness ==
    /\ pc = "load_model_done"
    /\ path = "missing.pth" /\ ~Exists(path)
    /\ ret.kind = "None"
    /\ Len(val_losses) >= 1 /\ optimizer.step > 0
    /\ Exists("best_model.pth")

\* C7: load_model(path) of a checkpoint that train() wrote leaves the model
\* parameters and the optimizer state equal to what they were when the
\* checkpoint was saved, whatever epochs ran in between, and the returned
\* record carries the epoch of the save, so that start_epoch = epoch + 1 is
\* the next epoch index.
C7_ResumeRoundTrip ==
    (pc = "load_model_done" /\ Exists(path)) =>
        /\ ret.kind = "checkpoint"
        /\ saved[path] /= <<>>
        /\ model = saved[path][1].model
        /\ optimizer = saved[path][1].optimizer
        /\ ret.checkpoint[1].epoch = saved[path][1].epoch
        /\ ret.checkpoint[1].model_state_dict = model
        /\ ret.checkpoint[1].optimizer_state_dict = optimizer

\* optimizer steps taken after the save were undone by the load
C7_Witness ==
    /\ pc = "load_model_done"
    /\ ret.kind = "checkpoint"
    /\ optimizer.step < NumTrainBatches * Len(val_losses)
    /\ optimizer.step > 0
    /\ model = saved[path][1].model

\* C8: the two histories always have equal length; they change only by one
\* entry appended to each, when an epoch completes, the entries being the
\* losses of that epoch; a train() call that has returned, in either terminal
\* state, has returned the full histories; a later call appends to them.
C8_Histories ==
    /\ [](Len(train_losses) = Len(val_losses))
    /\ [](Terminal => ret = HistoriesRet(train_losses, val_losses))
    /\ []((pc = "for" \/ Terminal) => Len(val_losses) = base + ran)
    /\ [][(train_losses' /= train_losses \/ val_losses' /= val_losses
             \/ (pc = "record" /\ pc' /= "record")) =>
            /\ pc = "record"
            /\ train_losses' = Append(train_losses, train_loss)
            /\ val_losses' = Append(val_losses, val_loss)]_vars

\* a call with start_epoch > 0 has added epochs to histories that had entries
C8_Witness ==
    /\ Terminal
    /\ start_epoch > 0
    /\ base > 0 /\ ran > 0
    /\ Len(ret.val_losses) = base + ran
    /\ Len(ret.val_losses) > num_epochs - start_epoch

\* C9: sMAPE(0, 0) is 0; for every other pair the result is
\* 200 * |y_pred - y_true| / (|y_pred| + |y_true|), a fraction with a positive
\* denominator whose value lies in [0, 200].
C9_sMAPEBounds ==
    pc = "smape_done" =>
        IF y_true = 0 /\ y_pred = 0
        THEN smape.num = 0 /\ smape.den > 0
        ELSE /\ smape.den > 0
             /\ smape.num * (Abs(y_pred) + Abs(y_true))
                  = 200 * Abs(y_pred - y_true) * smape.den
             /\ 0 <= smape.num
             /\ smape.num <= 200 * smape.den

\* the upper end 200 is attained by a pair of opposite signs
C9_Witness ==
    /\ pc = "smape_done"
    /\ y_true > 0 /\ y_pred < 0
    /\ smape.num = 200 * smape.den

\* C10: validate() runs with the model in evaluation mode, takes every
\* validation batch once, and changes neither the model parameters nor the
\* optimizer state; within a train() call the optimizer state changes only in
\* train_epoch(), by one step per training batch, NumTrainBatches per epoch.
C10_ValidateFrame ==
    /\ [](pc = "validate" => ~training)
    /\ [][/\ pc = "validate" =>
               /\ model' = model /\ optimizer' = optimizer
               /\ training' = training
               /\ pc' = "validate" => num_batches' = num_batches + 1
               /\ pc' /= "validate" =>
                     pc' = "record" /\ num_batches = NumValBatches
          /\ (pc = "train_epoch" /\ pc' = "validate") =>
               /\ model' = model /\ optimizer' = optimizer
               /\ num_batches = NumTrainBatches
          /\ (pc /= "idle" /\ optimizer'.step /= optimizer.step) =>
               /\ pc = "train_epoch" /\ pc' = "train_epoch"
               /\ optimizer'.step = optimizer.step + 1
               /\ num_batches' = num_batches + 1
               /\ num_batches < NumTrainBatches]_vars

\* validate() has returned in the second epoch of a trainer
C10_Witness ==
    /\ pc = "record"
    /\ ~training
    /\ optimizer.step = 2 * NumTrainBatches
    /\ model = 2 * NumTrainBatches
    /\ Len(val_losses) = 1

\* ---------------------------------------------------------------------- C11
\* the fields of the trainer object and the checkpoint files
TrainerState == <<model, training, optimizer, scheduler, train_losses,
                  val_losses, best_val_loss, files>>

\* the image files of the five routines that follow plot_training_history()
ScoredImages ==
    {"val_predictions.png", "perfect_prediction.png", "attention_weights.png",
     "average_attention_weights.png", "error_percentage_line.png",
     "error_percentage_histogram.png", "save_dir/sMAPE_line.png",
     "save_dir/sMAPE_histogram.png"}

\* C11: plot_training_history() with an empty train_losses prints the
\* warning and returns: it writes no image, changes no field of the trainer
\* and no checkpoint file, and hands control back (to plot_summary()'s next
\* call, plot_predictions(), or to its own caller).  training_history.png
\* does not exist while train_losses is empty.  When plot_summary() returns,
\* all six routines have run in the order of lines 283-288 and the images of
\* the last five are written, with an empty history too, where the first
\* line printed is the warning.
C11_EmptyHistoryNoOp ==
    /\ [][(pc = "plot_training_history" /\ train_losses = <<>>) =>
            /\ stdout' = Append(stdout, NoHistoryWarning)
            /\ images' = images
            /\ TrainerState' = TrainerState
            /\ pc' = IF caller = "plot_summary" THEN "plot_predictions"
                     ELSE "plot_done"]_vars
    /\ [](train_losses = <<>> => "training_history.png" \notin images)
    /\ []((pc = "plot_done" /\ caller = "plot_summary") =>
            /\ plotted = PlotOrder
            /\ ScoredImages \subseteq images
            /\ train_losses = <<>> =>
                  (stdout /= <<>> /\ stdout[1] = NoHistoryWarning))

\* plot_summary() has returned on a trainer that never completed an epoch
C11_Witness ==
    /\ pc = "plot_done" /\ caller = "plot_summary"
    /\ train_losses = <<>>
    /\ plotted = PlotOrder
    /\ stdout[1] = NoHistoryWarning
    /\ "training_history.png" \notin images
    /\ ScoredImages \subseteq images
    /\ ~training

\* ---------------------------------------------------------------------- C12
\* C12: in every state reached by train() and load_model() calls on one
\* trainer, best_val_loss is the least entry of val_losses, and +infinity
\* while val_losses is empty.  A load_model() call leaves best_val_loss and
\* val_losses as they are.  Every train() call begins with patience_counter
\* = 0, and inside a call the counter never exceeds the number of epochs
\* that call has completed.
C12_BestIsMinimum ==
    /\ [](best_val_loss = BestSeen(val_losses))
    /\ [](InCall => patience_counter <= Len(val_losses) - base)
    /\ [][(pc = "idle" /\ pc' = "load_model_done") =>
            (best_val_loss' = best_val_loss /\ val_losses' = val_losses)]_vars
    /\ [][(pc = "idle" /\ pc' = "for") => patience_counter' = 0]_vars

\* A second train() call begins after a first one whose last epoch did not
\* improve and after load_model() has put back the parameters of an earlier
\* epoch: the best loss is still the least of the history, the counter is 0.
C12_Witness ==
    /\ pc = "for" /\ ran = 0 /\ base >= 2
    /\ model < NumTrainBatches * base
    /\ best_val_loss = BestSeen(val_losses)
    /\ best_val_loss < val_losses[Len(val_losses)]
    /\ patience_counter = 0
    /\ InRange(epoch, num_epochs)

====
